---- MODULE Spec2Model ----
(***************************************************************************)
(* State-machine model of the marketplace front-end pages:                 *)
(*   - OfferFormCheckout  (src/components/Offer/Form/Checkout.tsx)         *)
(*   - BidPlacedPage      (src/unnamed/part_000, lines 1-406)              *)
(*   - CreatePage         (src/unnamed/part_000, lines 407-656)            *)
(* One page is mounted at a time (they are separate routes); `page` says   *)
(* which, and the other page's variables keep their initial values.        *)
(*                                                                         *)
(* Strings that the code parses (quantity, unitPrice, availableQuantity)   *)
(* are sequences of one-character strings, parsed as the code parses them. *)
(* Imported hooks (useAcceptOffer, useCancelOffer, useBalance, refetch)    *)
(* are environments: their promises resolve or reject nondeterministically.*)
(* toast, formatError, t, onOpen, onClose and onPurchased are synchronous  *)
(* calls that return normally.                                             *)
(***************************************************************************)
EXTENDS Integers, Sequences, FiniteSets, TLC

\* ---------------------------------------------------------------- bounds
MaxAvailable == 2      \* largest offer.availableQuantity
MaxBalance   == 3      \* largest account balance
MaxSubmits   == 2      \* checkout submissions that reach onSubmit's callback
MaxCancels   == 2      \* cancel clicks per behaviour
MaxTime      == 1      \* last clock instant (new Date())
MaxPromises  == 2      \* promises useConfig() hands out while the page shows

VARIABLES
  page,               \* which page component is mounted
  \* ---- OfferFormCheckout
  offer,              \* props.offer: [unitPrice, availableQuantity], strings
  multiple,           \* props.multiple
  account,            \* props.account: "null" or an address
  balance,            \* useBalance(): [known |-> FALSE] is undefined
  quantity,           \* watch('quantity'): the form value, a string
  focused,            \* the quantity field has the keyboard focus
  acceptOfferIsOpen,  \* useDisclosure().isOpen of the accept-offer modal
  loginIsOpen,        \* useDisclosure().isOpen of the login modal
  isSubmitting,       \* formState.isSubmitting
  submits,            \* the runs of onSubmit's callback, in start order
  \* ---- BidPlacedPage
  ownerLoggedIn,      \* useIsLoggedIn(userAddress), fixed while the page shows
  bids,               \* data.bids.nodes after convertBidFull: rows
  clock,              \* the instant new Date() returns
  view,               \* what the last render put in each row's cells
  activeStep,         \* useCancelOffer()[1].activeStep
  isOpen,             \* useDisclosure().isOpen of the cancel modal
  cancels,            \* the runs of handleCancelOffer, in start order
  \* ---- CreatePage
  createMounted,      \* the page component is mounted
  configPromise,      \* useConfig(): the promise of the current render
  promises,           \* every promise useConfig() has handed out
  reactions,          \* promises whose .then(setConfig) has yet to run
  config,             \* useState<Config>(): the config state
  formData            \* useState<Partial<FormData>>(): the form's values

checkoutVars == <<offer, multiple, account, balance, quantity, focused,
                  acceptOfferIsOpen, loginIsOpen, isSubmitting, submits>>
bidsVars == <<ownerLoggedIn, bids, clock, view, activeStep, isOpen, cancels>>
createVars == <<createMounted, configPromise, promises, reactions, config,
                formData>>
vars == <<page, checkoutVars, bidsVars, createVars>>

\* ------------------------------------------------- strings and numbers
DigitSeq == <<"0", "1", "2", "3", "4", "5", "6", "7", "8", "9">>
Digits == {DigitSeq[i] : i \in 1..10}
DigitChar(n) == DigitSeq[n + 1]
DigitVal(c) == CHOOSE n \in 0..9 : DigitSeq[n + 1] = c

RECURSIVE NatToStr(_)
NatToStr(n) ==
  IF n < 10 THEN <<DigitChar(n)>>
  ELSE NatToStr(n \div 10) \o <<DigitChar(n % 10)>>

\* Number.prototype.toString / BigNumber.toString for an integer.
IntToStr(n) == IF n < 0 THEN <<"-">> \o NatToStr(0 - n) ELSE NatToStr(n)

\* BigNumber.from(string) accepts exactly /^-?[0-9]+$/ (hex strings apart,
\* which the number field cannot hold) and throws on anything else.
IsDecimalInteger(s) ==
  LET body == IF Len(s) > 0 /\ s[1] = "-" THEN Tail(s) ELSE s
  IN  Len(body) > 0 /\ \A i \in 1..Len(body) : body[i] \in Digits

RECURSIVE DigitsToNat(_)
DigitsToNat(s) ==
  IF Len(s) = 0 THEN 0
  ELSE DigitsToNat(SubSeq(s, 1, Len(s) - 1)) * 10 + DigitVal(s[Len(s)])

\* The value of a string IsDecimalInteger accepts.
StrToInt(s) ==
  IF s[1] = "-" THEN 0 - DigitsToNat(Tail(s)) ELSE DigitsToNat(s)

\* ------------------------------------------------------------ checkout
NoAccount == "null"
Accounts == {NoAccount, "0xbuyer"}
Undefined == [known |-> FALSE, v |-> 0]
Known(b) == [known |-> TRUE, v |-> b]
Balances == {Undefined} \cup {Known(b) : b \in 0..MaxBalance}
\* What a promise can reject with: the action hooks' errors and the query's.
HookErrors == {"hookError"}
FetchErrors == {"fetchError"}

UnitPrices == {IntToStr(1), IntToStr(2)}
Offers == [unitPrice : UnitPrices,
           availableQuantity : {IntToStr(a) : a \in 1..MaxAvailable}]

\* What a change event can leave in the number field: any string over the
\* characters [Ee0-9+-.] -- here the integers around the allowed range and
\* two strings that are no integer.
QuantityInputs ==
  {IntToStr(n) : n \in (0 - 1)..(MaxAvailable + 1)}
    \cup {<<>>, <<"-">>, <<"1", ".">>}

\* const priceUnit = useMemo(() => BigNumber.from(offer.unitPrice), ...)
priceUnit == StrToInt(offer.unitPrice)

\* const canPurchase = useMemo(() => { ... }): "true", "false", or "throws"
\* when priceUnit.mul(quantity) is handed a string that is no integer.
CanPurchase(bal, qty) ==
  IF ~bal.known \/ qty = <<>> THEN "false"
  ELSE IF ~IsDecimalInteger(qty) THEN "throws"
  ELSE IF bal.v >= priceUnit * StrToInt(qty) THEN "true"
  ELSE "false"

canPurchase == CanPurchase(balance, quantity)

\* A render that throws unmounts the form: nothing of it is left to act on.
RenderThrows == canPurchase = "throws"
Mounted == page = "checkout" /\ ~RenderThrows

\* The login modal, while open, covers the form: nothing under it can be
\* clicked or typed into.
Interactive == Mounted /\ ~loginIsOpen

\* <NumberInput clampValueOnBlur={false} min={1} max={parseInt(...)} step={1}>
quantityMin == 1
quantityStep == 1
quantityMax == StrToInt(offer.availableQuantity)
clampValueOnBlur == FALSE

ClampValue(v, lo, hi) == IF v < lo THEN lo ELSE IF v > hi THEN hi ELSE v

\* The field's value once it loses the focus.
ValueOnBlur(qty) ==
  IF clampValueOnBlur /\ IsDecimalInteger(qty)
  THEN IntToStr(ClampValue(StrToInt(qty), quantityMin, quantityMax))
  ELSE qty

\* The steppers (and arrow keys, mouse wheel): one step from the current
\* number, an empty field counting as 0, kept within [min, max].
ValueOnStep(qty, dir) ==
  LET cur == IF qty = <<>> THEN 0 ELSE StrToInt(qty)
  IN  IntToStr(ClampValue(cur + dir * quantityStep, quantityMin, quantityMax))

\* register('quantity', { required: ... }): the rule handleSubmit checks
\* before it calls onSubmit's callback; registered only when the field is
\* rendered ({multiple && ...}).
ValidationPasses(qty) == ~multiple \/ qty # <<>>

\* The submit button is rendered only with an account, disabled unless
\* canPurchase, and Chakra disables a button that isLoading.
SubmitButtonEnabled ==
  /\ account # NoAccount
  /\ canPurchase = "true"
  /\ ~isSubmitting

\* Implicit submission (Enter in the field): through the form's submit button
\* when there is one, and it must be enabled; with no submit button (the
\* login button is type="button") a form with one field submits.
EnterSubmits == account = NoAccount \/ SubmitButtonEnabled

\* ----------------------------------------------------- handler runs
\* A run of a handler: its position, the error its awaited promise rejected
\* with, the calls it has made so far and the toasts it has shown;
\* hook / fetch: how the awaited promises ended ("" while not settled), id: the
\* bid a cancellation is about.
IdleRun ==
  [pc |-> "idle", hook |-> "", fetch |-> "", err |-> "", id |-> "",
   log |-> <<>>, toasts |-> <<>>]
InFlight(r) == r.pc \notin {"idle", "done"}
Started(r) == r.pc # "idle"

\* toast({ title: formatError(e), status: 'error' })
ErrorToast(e) ==
  [status |-> "error", title |-> [fn |-> "formatError", arg |-> e]]
\* toast({ title: t(key), status: 'success' })
SuccessToast(key) ==
  [status |-> "success", title |-> [fn |-> "t", arg |-> key]]

\* What one step of a handler does: the calls it makes, the toasts it shows,
\* and where it stops.
Effect(pc, calls, toasts) == [pc |-> pc, calls |-> calls, toasts |-> toasts]
ApplyEffect(r, eff) ==
  [r EXCEPT !.pc = eff.pc, !.log = @ \o eff.calls, !.toasts = @ \o eff.toasts]

\* useDisclosure: isOpen after the calls of one step.
RECURSIVE Disclosure(_, _, _, _)
Disclosure(open, calls, onOpenFn, onCloseFn) ==
  IF Len(calls) = 0 THEN open
  ELSE Disclosure(IF calls[1] = onOpenFn THEN TRUE
                  ELSE IF calls[1] = onCloseFn THEN FALSE
                  ELSE open,
                  Tail(calls), onOpenFn, onCloseFn)

Count(log, fn) == Cardinality({i \in 1..Len(log) : log[i] = fn})
\* The position of the first call of fn in log, 0 when there is none.
FirstIndex(log, fn) ==
  IF Count(log, fn) = 0 THEN 0
  ELSE CHOOSE i \in 1..Len(log) :
         log[i] = fn /\ \A j \in 1..(i - 1) : log[j] # fn

\* onSubmit's callback up to its await:
\*   try { acceptOfferOnOpen(); await acceptOffer(offer, quantity)
OnSubmitStart ==
  Effect("awaiting", <<"acceptOfferOnOpen", "acceptOffer">>, <<>>)

\* Faulty variant: the modal is closed before the purchase is notified.
OnSubmitResolved_CloseFirst(r) ==
  Effect("done", <<"acceptOfferOnClose", "onPurchased">>, <<>>)

\* acceptOffer resolved: onPurchased(), then finally { acceptOfferOnClose() }
OnSubmitResolved(r) ==
  Effect("done", <<"onPurchased", "acceptOfferOnClose">>, <<>>)

\* Faulty variant: the modal is closed inside try, not in finally.
OnSubmitRejected_NoFinally(r) ==
  Effect("done", <<"toast">>, <<ErrorToast(r.err)>>)

\* acceptOffer rejected: catch (e) { toast(...) } finally { acceptOfferOnClose() }
OnSubmitRejected(r) ==
  Effect("done", <<"toast", "acceptOfferOnClose">>, <<ErrorToast(r.err)>>)

NextSubmit ==
  IF \E h \in 1..MaxSubmits : ~Started(submits[h])
  THEN CHOOSE h \in 1..MaxSubmits :
         ~Started(submits[h]) /\ \A g \in 1..(h - 1) : Started(submits[g])
  ELSE 0

\* ------------------------------------------------------ checkout actions
\* handleSubmit(callback): the required rule, then the callback up to its
\* await. A failed validation ends the submission at once.
HandleSubmit ==
  IF ValidationPasses(quantity)
  THEN /\ NextSubmit # 0
       /\ LET eff == OnSubmitStart
          IN  /\ submits' = [submits EXCEPT
                               ![NextSubmit] = ApplyEffect(@, eff)]
              /\ acceptOfferIsOpen' =
                   Disclosure(acceptOfferIsOpen, eff.calls,
                              "acceptOfferOnOpen", "acceptOfferOnClose")
       /\ isSubmitting' = TRUE
  ELSE /\ isSubmitting' = FALSE
       /\ UNCHANGED <<submits, acceptOfferIsOpen>>

FocusQuantity ==
  /\ Interactive /\ multiple /\ ~focused
  /\ focused' = TRUE
  /\ UNCHANGED <<page, offer, multiple, account, balance, quantity,
                 acceptOfferIsOpen, isSubmitting, submits,
                 loginIsOpen, bidsVars, createVars>>

BlurQuantity ==
  /\ Interactive /\ multiple /\ focused
  /\ focused' = FALSE
  /\ quantity' = ValueOnBlur(quantity)
  /\ UNCHANGED <<page, offer, multiple, account, balance,
                 acceptOfferIsOpen, isSubmitting, submits,
                 loginIsOpen, bidsVars, createVars>>

\* onChange={(x) => setValue('quantity', x)} and register's onChange.
TypeQuantity(s) ==
  /\ Interactive /\ multiple /\ focused
  /\ s # quantity
  /\ quantity' = s
  /\ UNCHANGED <<page, offer, multiple, account, balance, focused,
                 acceptOfferIsOpen, isSubmitting, submits,
                 loginIsOpen, bidsVars, createVars>>

\* <NumberIncrementStepper /> (dir = 1), <NumberDecrementStepper /> (dir = -1).
\* Modelled for a field holding an integer or nothing.
StepQuantity(dir) ==
  /\ Interactive /\ multiple
  /\ quantity = <<>> \/ IsDecimalInteger(quantity)
  /\ quantity' = ValueOnStep(quantity, dir)
  /\ focused' = TRUE
  /\ UNCHANGED <<page, offer, multiple, account, balance,
                 acceptOfferIsOpen, isSubmitting, submits,
                 loginIsOpen, bidsVars, createVars>>

\* useBalance(account, currency.id) delivers a balance for the account.
BalanceLoaded(b) ==
  /\ Mounted /\ account # NoAccount
  /\ balance # Known(b)
  /\ balance' = Known(b)
  /\ UNCHANGED <<page, offer, multiple, account, quantity, focused,
                 acceptOfferIsOpen, isSubmitting, submits,
                 loginIsOpen, bidsVars, createVars>>

\* The account prop changes (login, logout); its balance is not known yet.
AccountChanged(a) ==
  /\ Mounted /\ a # account
  /\ account' = a
  /\ balance' = Undefined
  /\ UNCHANGED <<page, offer, multiple, quantity, focused,
                 acceptOfferIsOpen, isSubmitting, submits,
                 loginIsOpen, bidsVars, createVars>>

\* <Button type="submit" disabled={!!account && !canPurchase} isLoading=...>
ClickSubmit ==
  /\ Interactive /\ SubmitButtonEnabled
  /\ HandleSubmit
  /\ focused' = FALSE
  /\ UNCHANGED <<page, offer, multiple, account, balance, quantity,
                 loginIsOpen, bidsVars, createVars>>

\* <form onSubmit={onSubmit}>: Enter in the quantity field.
PressEnter ==
  /\ Interactive /\ multiple /\ focused
  /\ EnterSubmits
  /\ HandleSubmit
  /\ UNCHANGED <<page, offer, multiple, account, balance, quantity, focused,
                 loginIsOpen, bidsVars, createVars>>

\* The promise acceptOffer returned resolves.
AcceptOfferResolves(h) ==
  /\ page = "checkout"
  /\ submits[h].pc = "awaiting"
  /\ submits' = [submits EXCEPT ![h].pc = "resolved", ![h].hook = "resolved"]
  /\ UNCHANGED <<page, offer, multiple, account, balance, quantity, focused,
                 acceptOfferIsOpen, isSubmitting, loginIsOpen,
                 bidsVars, createVars>>

\* The promise acceptOffer returned rejects with e.
AcceptOfferRejects(h, e) ==
  /\ page = "checkout"
  /\ submits[h].pc = "awaiting"
  /\ submits' = [submits EXCEPT ![h].pc = "rejected", ![h].hook = "rejected",
                                ![h].err = e]
  /\ UNCHANGED <<page, offer, multiple, account, balance, quantity, focused,
                 acceptOfferIsOpen, isSubmitting, loginIsOpen,
                 bidsVars, createVars>>

\* onSubmit's callback resumes after its await and runs to its end;
\* handleSubmit then clears isSubmitting.
OnSubmitResumes(h) ==
  /\ page = "checkout"
  /\ submits[h].pc \in {"resolved", "rejected"}
  /\ LET eff == IF submits[h].pc = "resolved"
                THEN OnSubmitResolved(submits[h])
                ELSE OnSubmitRejected(submits[h])
     IN  /\ submits' = [submits EXCEPT ![h] = ApplyEffect(@, eff)]
         /\ acceptOfferIsOpen' =
              Disclosure(acceptOfferIsOpen, eff.calls,
                         "acceptOfferOnOpen", "acceptOfferOnClose")
         /\ isSubmitting' = IF eff.pc = "done" THEN FALSE ELSE isSubmitting
  /\ UNCHANGED <<page, offer, multiple, account, balance, quantity, focused,
                 loginIsOpen, bidsVars, createVars>>

\* <AcceptOfferModal onClose={acceptOfferOnClose} />: the user dismisses it.
DismissAcceptOfferModal ==
  /\ Mounted /\ acceptOfferIsOpen
  /\ acceptOfferIsOpen' = FALSE
  /\ UNCHANGED <<page, offer, multiple, account, balance, quantity, focused,
                 isSubmitting, submits, loginIsOpen, bidsVars, createVars>>

\* <Button type="button" onClick={loginOnOpen}>, rendered without an account.
ClickLogin ==
  /\ Interactive /\ account = NoAccount
  /\ ~acceptOfferIsOpen
  /\ loginIsOpen' = TRUE
  /\ focused' = FALSE
  /\ UNCHANGED <<page, offer, multiple, account, balance, quantity,
                 acceptOfferIsOpen, isSubmitting, submits,
                 bidsVars, createVars>>

\* <LoginModal onClose={loginOnClose} />: the modal is dismissed, or closes
\* itself after a login.
CloseLoginModal ==
  /\ Mounted /\ loginIsOpen
  /\ loginIsOpen' = FALSE
  /\ UNCHANGED <<page, offer, multiple, account, balance, quantity, focused,
                 acceptOfferIsOpen, isSubmitting, submits,
                 bidsVars, createVars>>

CheckoutNext ==
  \/ FocusQuantity
  \/ BlurQuantity
  \/ \E s \in QuantityInputs : TypeQuantity(s)
  \/ \E dir \in {1, 0 - 1} : StepQuantity(dir)
  \/ \E b \in 0..MaxBalance : BalanceLoaded(b)
  \/ \E a \in Accounts : AccountChanged(a)
  \/ ClickSubmit
  \/ PressEnter
  \/ \E h \in 1..MaxSubmits : AcceptOfferResolves(h)
  \/ \E h \in 1..MaxSubmits, e \in HookErrors : AcceptOfferRejects(h, e)
  \/ \E h \in 1..MaxSubmits : OnSubmitResumes(h)
  \/ DismissAcceptOfferModal
  \/ ClickLogin
  \/ CloseLoginModal

\* The form as mounted: quantity defaults to offer.availableQuantity.
CheckoutInit ==
  /\ offer \in Offers
  /\ multiple \in BOOLEAN
  /\ account \in Accounts
  /\ balance = Undefined
  /\ quantity = offer.availableQuantity
  /\ focused = FALSE
  /\ acceptOfferIsOpen = FALSE
  /\ loginIsOpen = FALSE
  /\ isSubmitting = FALSE
  /\ submits = [h \in 1..MaxSubmits |-> IdleRun]

\* The form while another page is mounted.
CheckoutIdle ==
  /\ offer = [unitPrice |-> IntToStr(1), availableQuantity |-> IntToStr(1)]
  /\ multiple = FALSE
  /\ account = NoAccount
  /\ balance = Undefined
  /\ quantity = offer.availableQuantity
  /\ focused = FALSE
  /\ acceptOfferIsOpen = FALSE
  /\ loginIsOpen = FALSE
  /\ isSubmitting = FALSE
  /\ submits = [h \in 1..MaxSubmits |-> IdleRun]

\* ---------------------------------------------------------- bids page
BidIds == <<"b1", "b2">>
\* item.expiredAt: null, or a Date.
NullDate == [isNull |-> TRUE, t |-> 0]
At(t) == [isNull |-> FALSE, t |-> t]
Expiries == {NullDate} \cup {At(t) : t \in 1..MaxTime}
\* CancelOfferStep: INITIAL, and the steps of a cancellation under way, which
\* the page does not tell apart.
CancelOfferSteps == {"INITIAL", "UNDER_WAY"}

\* <Td>{item.expiredAt && item.expiredAt <= new Date() ? expired : active}</Td>
StatusCell(item, now) ==
  IF ~item.expiredAt.isNull /\ item.expiredAt.t <= now
  THEN "expired" ELSE "active"

\* {ownerLoggedIn && (!item.expiredAt || item.expiredAt > new Date()
\*    ? <Button onClick=cancel> : <Button as={Link}>)}
ActionCell(item, now, owner) ==
  IF ~owner THEN "none"
  ELSE IF item.expiredAt.isNull \/ item.expiredAt.t > now THEN "cancel"
  ELSE "rebid"

\* disabled={activeStep !== CancelOfferStep.INITIAL}
CancelDisabled(step) == step # "INITIAL"

\* One render of the table body. Each row evaluates new Date() twice, first in
\* its status cell and then in its actions cell: 2 * Len(rows) reads in row
\* order. The clock may advance during the render: reads from the tick-th on
\* see now + 1 (tick = 2 * Len(rows) + 1: no tick during this render).
RenderRows(rows, owner, step, now, tick) ==
  [i \in 1..Len(rows) |->
     [status   |-> StatusCell(rows[i],
                              IF 2 * i - 1 >= tick THEN now + 1 ELSE now),
      action   |-> ActionCell(rows[i],
                              IF 2 * i >= tick THEN now + 1 ELSE now, owner),
      disabled |-> CancelDisabled(step)]]

\* React renders the page again after a state change.
Rerender ==
  \E tick \in 2..(2 * Len(bids') + 1) :
    LET ticked == tick <= 2 * Len(bids')
    IN  /\ ticked => clock < MaxTime
        /\ clock' = IF ticked THEN clock + 1 ELSE clock
        /\ view' = RenderRows(bids', ownerLoggedIn', activeStep', clock, tick)

\* handleCancelOffer up to its first await:
\*   try { onOpen(); await cancel({ id })
HandleCancelStart == Effect("awaiting", <<"onOpen", "cancel">>, <<>>)

\* Faulty variant: the list is refetched before the success toast is shown.
HandleCancelResolved_RefetchFirst(r) ==
  Effect("refetching", <<"refetch", "toast">>,
         <<SuccessToast("user.bid-placed.notifications.canceled")>>)

\* cancel resolved: toast({ success }); await refetch()
HandleCancelResolved(r) ==
  Effect("refetching", <<"toast", "refetch">>,
         <<SuccessToast("user.bid-placed.notifications.canceled")>>)

\* Faulty variant: the catch block swallows the error without a toast.
HandleCancelRejected_Silent(r) == Effect("done", <<"onClose">>, <<>>)

\* Faulty variant: the catch block calls cancel again.
HandleCancelRejected_Retry(r) == Effect("awaiting", <<"cancel">>, <<>>)

\* cancel rejected: catch (e) { toast({ error }) } finally { onClose() }
HandleCancelRejected(r) ==
  Effect("done", <<"toast", "onClose">>, <<ErrorToast(r.err)>>)

\* refetch resolved: finally { onClose() }
HandleCancelRefetched(r) == Effect("done", <<"onClose">>, <<>>)

\* refetch rejected: catch (e) { toast({ error }) } finally { onClose() }
HandleCancelRefetchRejected(r) ==
  Effect("done", <<"toast", "onClose">>, <<ErrorToast(r.err)>>)

NextCancel ==
  IF \E h \in 1..MaxCancels : ~Started(cancels[h])
  THEN CHOOSE h \in 1..MaxCancels :
         ~Started(cancels[h]) /\ \A g \in 1..(h - 1) : Started(cancels[g])
  ELSE 0

RemoveBid(rows, id) == SelectSeq(rows, LAMBDA row : row.id # id)

\* ---------------------------------------------------------- bids actions
\* Time passes; nothing renders again because of it.
Tick ==
  /\ page = "bids"
  /\ clock < MaxTime
  /\ clock' = clock + 1
  /\ UNCHANGED <<page, checkoutVars, createVars, ownerLoggedIn, bids, view,
                 activeStep,
                 isOpen, cancels>>

\* onClick={() => handleCancelOffer(item.id)} on a rendered, enabled cancel
\* button; an open modal covers the table.
ClickCancel(i) ==
  /\ page = "bids"
  /\ i \in 1..Len(view)
  /\ view[i].action = "cancel"
  /\ ~view[i].disabled
  /\ ~isOpen
  /\ NextCancel # 0
  /\ LET eff == HandleCancelStart
     IN  /\ cancels' = [cancels EXCEPT
                          ![NextCancel] =
                            [ApplyEffect(@, eff) EXCEPT !.id = bids[i].id]]
         /\ isOpen' = Disclosure(isOpen, eff.calls, "onOpen", "onClose")
  /\ UNCHANGED <<page, checkoutVars, createVars, ownerLoggedIn, bids,
                 activeStep>>
  /\ Rerender

\* useCancelOffer leaves INITIAL while a cancellation is pending.
CancelStepAdvances ==
  /\ page = "bids"
  /\ \E h \in 1..MaxCancels : cancels[h].pc = "awaiting"
  /\ activeStep = "INITIAL"
  /\ activeStep' = "UNDER_WAY"
  /\ UNCHANGED <<page, checkoutVars, createVars, ownerLoggedIn, bids, isOpen,
                 cancels>>
  /\ Rerender

\* The promise cancel returned resolves; the hook is back at INITIAL.
CancelResolves(h) ==
  /\ page = "bids"
  /\ cancels[h].pc = "awaiting"
  /\ cancels' = [cancels EXCEPT ![h].pc = "resolved", ![h].hook = "resolved"]
  /\ activeStep' = "INITIAL"
  /\ UNCHANGED <<page, checkoutVars, createVars, ownerLoggedIn, bids, isOpen>>
  /\ Rerender

\* The promise cancel returned rejects with e; the hook is back at INITIAL.
CancelRejects(h, e) ==
  /\ page = "bids"
  /\ cancels[h].pc = "awaiting"
  /\ cancels' = [cancels EXCEPT ![h].pc = "rejected", ![h].hook = "rejected",
                                ![h].err = e]
  /\ activeStep' = "INITIAL"
  /\ UNCHANGED <<page, checkoutVars, createVars, ownerLoggedIn, bids, isOpen>>
  /\ Rerender

\* The query's refetch resolves with the list as the backend has it now:
\* without the cancelled bid.
RefetchResolves(h) ==
  /\ page = "bids"
  /\ cancels[h].pc = "refetching"
  /\ cancels' = [cancels EXCEPT ![h].pc = "refetched", ![h].fetch = "resolved"]
  /\ bids' = RemoveBid(bids, cancels[h].id)
  /\ UNCHANGED <<page, checkoutVars, createVars, ownerLoggedIn, activeStep,
                 isOpen>>
  /\ Rerender

RefetchRejects(h, e) ==
  /\ page = "bids"
  /\ cancels[h].pc = "refetching"
  /\ cancels' = [cancels EXCEPT ![h].pc = "refetchRejected",
                                ![h].fetch = "rejected", ![h].err = e]
  /\ UNCHANGED <<page, checkoutVars, createVars, ownerLoggedIn, bids,
                 activeStep, isOpen>>
  /\ Rerender

\* handleCancelOffer resumes after an await and runs to its next await or
\* to its end.
HandleCancelResumes(h) ==
  /\ page = "bids"
  /\ cancels[h].pc \in {"resolved", "rejected", "refetched", "refetchRejected"}
  /\ LET r == cancels[h]
         eff == CASE r.pc = "resolved" -> HandleCancelResolved(r)
                  [] r.pc = "rejected" -> HandleCancelRejected(r)
                  [] r.pc = "refetched" -> HandleCancelRefetched(r)
                  [] r.pc = "refetchRejected" -> HandleCancelRefetchRejected(r)
     IN  /\ cancels' = [cancels EXCEPT ![h] = ApplyEffect(@, eff)]
         /\ isOpen' = Disclosure(isOpen, eff.calls, "onOpen", "onClose")
  /\ UNCHANGED <<page, checkoutVars, createVars, ownerLoggedIn, bids,
                 activeStep>>
  /\ Rerender

\* <CancelOfferModal onClose={onClose} />: the user dismisses it.
DismissCancelModal ==
  /\ page = "bids"
  /\ isOpen
  /\ isOpen' = FALSE
  /\ UNCHANGED <<page, checkoutVars, createVars, ownerLoggedIn, bids,
                 activeStep, cancels>>
  /\ Rerender

BidsNext ==
  \/ Tick
  \/ \E i \in 1..Len(BidIds) : ClickCancel(i)
  \/ CancelStepAdvances
  \/ \E h \in 1..MaxCancels : CancelResolves(h)
  \/ \E h \in 1..MaxCancels, e \in HookErrors : CancelRejects(h, e)
  \/ \E h \in 1..MaxCancels : RefetchResolves(h)
  \/ \E h \in 1..MaxCancels, e \in FetchErrors : RefetchRejects(h, e)
  \/ \E h \in 1..MaxCancels : HandleCancelResumes(h)
  \/ DismissCancelModal

\* The page as first rendered, at instant 0.
BidsInit ==
  /\ ownerLoggedIn \in BOOLEAN
  /\ bids \in {[i \in 1..Len(BidIds) |-> [id |-> BidIds[i], expiredAt |-> x[i]]] :
                 x \in [1..Len(BidIds) -> Expiries]}
  /\ clock = 0
  /\ activeStep = "INITIAL"
  /\ view = RenderRows(bids, ownerLoggedIn, activeStep, 0, 2 * Len(bids) + 1)
  /\ isOpen = FALSE
  /\ cancels = [h \in 1..MaxCancels |-> IdleRun]

\* The page while another page is mounted.
BidsIdle ==
  /\ ownerLoggedIn = FALSE
  /\ bids = <<>>
  /\ clock = 0
  /\ activeStep = "INITIAL"
  /\ view = <<>>
  /\ isOpen = FALSE
  /\ cancels = [h \in 1..MaxCancels |-> IdleRun]

\* --------------------------------------------------------- create page
\* useState<Config>(): undefined, or a Config.
UndefinedConfig ==
  [defined |-> FALSE, hasUnlockableContent |-> FALSE, hasLazyMint |-> FALSE]
Configs ==
  {[defined |-> TRUE, hasUnlockableContent |-> TRUE, hasLazyMint |-> FALSE],
   [defined |-> TRUE, hasUnlockableContent |-> FALSE, hasLazyMint |-> TRUE]}

\* A promise useConfig() returns: not handed out yet, pending, or settled.
UnusedPromise == [state |-> "unused", value |-> UndefinedConfig]
PendingPromise == [state |-> "pending", value |-> UndefinedConfig]
ResolvedPromise(c) == [state |-> "resolved", value |-> c]
RejectedPromise == [state |-> "rejected", value |-> UndefinedConfig]

\* The effect body: void configPromise.then(setConfig)
EffectRuns(subscribed, p) == subscribed \cup {p}

\* The effect's cleanup: () => setConfig(undefined)
EffectCleanup == UndefinedConfig

\* setConfig(value), called by a promise reaction; React drops a state update
\* of a component that is no longer mounted.
SetConfig(current, value, mounted) == IF mounted THEN value ELSE current

\* activateUnlockableContent={config?.hasUnlockableContent || false}
activateUnlockableContent == config.defined /\ config.hasUnlockableContent
\* activateLazyMint={config?.hasLazyMint || false}
activateLazyMint == config.defined /\ config.hasLazyMint

\* An optional value that is not there (undefined).
NoValue == "undefined"
\* formData?.isPrivate, formData?.isAnimation: boolean | undefined, tested
\* for truthiness.
OptionalBooleans == {NoValue, "false", "true"}
Truthy(x) == x = "true"
\* formData?.preview, formData?.content: File | undefined. The same file can
\* be chosen for both.
PreviewFiles == {NoValue, "cover.png"}
ContentFiles == {NoValue, "cover.png", "secret.png"}
Names == {NoValue, "Art"}

\* useState<Partial<FormData>>() starts undefined: every read through
\* formData?. is then undefined.
UndefinedFormData ==
  [defined |-> FALSE, isPrivate |-> NoValue, isAnimation |-> NoValue,
   preview |-> NoValue, content |-> NoValue, name |-> NoValue]
FormDatas ==
  [defined : {TRUE}, isPrivate : OptionalBooleans,
   isAnimation : OptionalBooleans, preview : PreviewFiles,
   content : ContentFiles, name : Names]

\* useLocalFileURL(file): the object URL of the file, undefined (here <<>>)
\* without a file.
NoURL == <<>>
useLocalFileURL(file) == IF file = NoValue THEN NoURL ELSE <<"blob:", file>>

\* Faulty variant: only isAnimation selects the preview file.
ImageFile_IgnoresPrivate(fd) ==
  IF Truthy(fd.isAnimation) THEN fd.preview ELSE fd.content

\* formData?.isPrivate || formData?.isAnimation
\*   ? formData?.preview : formData?.content
ImageFile(fd) ==
  IF Truthy(fd.isPrivate) \/ Truthy(fd.isAnimation)
  THEN fd.preview ELSE fd.content

\* formData?.isAnimation && !formData.isPrivate ? formData.content : undefined
AnimationFile(fd) ==
  IF Truthy(fd.isAnimation) /\ ~Truthy(fd.isPrivate)
  THEN fd.content ELSE NoValue

imageUrlLocal == useLocalFileURL(ImageFile(formData))
animationUrlLocal == useLocalFileURL(AnimationFile(formData))

\* const asset = useMemo(() => ({ id, image, animationUrl, name, standard }))
\* as the preview card gets it, image being imageUrlLocal || undefined;
\* standard, read from the multiple prop alone, is left out.
asset ==
  [id |-> "",
   image |-> IF imageUrlLocal = NoURL THEN NoURL ELSE imageUrlLocal,
   animationUrl |-> animationUrlLocal,
   name |-> IF formData.name = NoValue THEN "" ELSE formData.name]

\* ------------------------------------------------------- create actions
\* onInputChange={setFormData}: the form reports its values.
InputChange(fd) ==
  /\ page = "create" /\ createMounted
  /\ fd # formData
  /\ formData' = fd
  /\ UNCHANGED <<page, checkoutVars, bidsVars, createMounted, configPromise,
                 promises, reactions, config>>

\* useConfig() returns another promise: the effect of [configPromise] is
\* cleaned up and runs again, in one commit.
ConfigPromiseChanges ==
  /\ page = "create" /\ createMounted
  /\ configPromise < MaxPromises
  /\ configPromise' = configPromise + 1
  /\ promises' = [promises EXCEPT ![configPromise + 1] = PendingPromise]
  /\ config' = EffectCleanup
  /\ reactions' = EffectRuns(reactions, configPromise + 1)
  /\ UNCHANGED <<page, checkoutVars, bidsVars, createMounted, formData>>

\* A promise useConfig() returned resolves with the config c.
ConfigResolves(p, c) ==
  /\ page = "create"
  /\ promises[p].state = "pending"
  /\ promises' = [promises EXCEPT ![p] = ResolvedPromise(c)]
  /\ UNCHANGED <<page, checkoutVars, bidsVars, createMounted, configPromise,
                 reactions, config, formData>>

\* A promise useConfig() returned rejects: then(setConfig) has no rejection
\* handler, its reaction is dropped.
ConfigRejects(p) ==
  /\ page = "create"
  /\ promises[p].state = "pending"
  /\ promises' = [promises EXCEPT ![p] = RejectedPromise]
  /\ reactions' = reactions \ {p}
  /\ UNCHANGED <<page, checkoutVars, bidsVars, createMounted, configPromise,
                 config, formData>>

\* The reaction then(setConfig) registered on promise p runs.
SetConfigRuns(p) ==
  /\ page = "create"
  /\ p \in reactions
  /\ promises[p].state = "resolved"
  /\ reactions' = reactions \ {p}
  /\ config' = SetConfig(config, promises[p].value, createMounted)
  /\ UNCHANGED <<page, checkoutVars, bidsVars, createMounted, configPromise,
                 promises, formData>>

\* The page is left: the effect is cleaned up and the state is gone.
UnmountCreate ==
  /\ page = "create" /\ createMounted
  /\ createMounted' = FALSE
  /\ config' = EffectCleanup
  /\ formData' = UndefinedFormData
  /\ UNCHANGED <<page, checkoutVars, bidsVars, configPromise, promises,
                 reactions>>

CreateNext ==
  \/ ConfigPromiseChanges
  \/ \E p \in 1..MaxPromises, c \in Configs : ConfigResolves(p, c)
  \/ \E p \in 1..MaxPromises : ConfigRejects(p)
  \/ \E p \in 1..MaxPromises : SetConfigRuns(p)
  \/ UnmountCreate
  \/ \E fd \in FormDatas : InputChange(fd)

\* The page after its first commit: config is undefined and the effect has
\* subscribed to the first promise.
CreateInit ==
  /\ createMounted = TRUE
  /\ configPromise = 1
  /\ promises = [p \in 1..MaxPromises |->
                   IF p = 1 THEN PendingPromise ELSE UnusedPromise]
  /\ reactions = EffectRuns({}, 1)
  /\ config = UndefinedConfig
  /\ formData = UndefinedFormData

\* The page while another page is mounted.
CreateIdle ==
  /\ createMounted = FALSE
  /\ configPromise = 1
  /\ promises = [p \in 1..MaxPromises |-> UnusedPromise]
  /\ reactions = {}
  /\ config = UndefinedConfig
  /\ formData = UndefinedFormData

\* ------------------------------------------------------- specification
Init ==
  \/ page = "checkout" /\ CheckoutInit /\ BidsIdle /\ CreateIdle
  \/ page = "bids" /\ CheckoutIdle /\ BidsInit /\ CreateIdle
  \/ page = "create" /\ CheckoutIdle /\ BidsIdle /\ CreateInit

Next == CheckoutNext \/ BidsNext \/ CreateNext

Spec == Init /\ [][Next]_vars

\* The event loop runs a handler's continuation once its promise has settled.
FairSpec ==
  /\ Spec
  /\ \A h \in 1..MaxSubmits : WF_vars(OnSubmitResumes(h))
  /\ \A h \in 1..MaxCancels : WF_vars(HandleCancelResumes(h))

\* ================================================================ claims
Last(log) == log[Len(log)]
SubmitRuns == 1..MaxSubmits
CancelRuns == 1..MaxCancels
\* fn is called in this step by a run of the checkout form.
SubmitCalls(fn) ==
  \E h \in SubmitRuns :
    Count(submits'[h].log, fn) > Count(submits[h].log, fn)

\* C1: canPurchase is a boolean: true exactly when the balance is known, the
\* quantity field is non-empty and balance >= offer.unitPrice * quantity, and
\* false in every other case.
C1_CanPurchaseExact ==
  page = "checkout" =>
    /\ canPurchase \in {"true", "false"}
    /\ (canPurchase = "true") <=>
         /\ balance.known
         /\ quantity # <<>>
         /\ IsDecimalInteger(quantity)
         /\ balance.v >= priceUnit * StrToInt(quantity)

\* C2: acceptOffer is invoked only in a state where the balance is known and
\* balance >= offer.unitPrice * (the quantity passed to acceptOffer).
C2_ValidatedBeforeAccept ==
  [][SubmitCalls("acceptOffer") =>
       /\ balance.known
       /\ IsDecimalInteger(quantity)
       /\ balance.v >= priceUnit * StrToInt(quantity)]_vars

\* C3: when the delegated hook rejects, the handler shows one error toast
\* titled formatError(e) for the error e the hook rejected with, skips the
\* success path (no onPurchased, no success toast, no refetch) and runs to its
\* end, closing the modal, without rejecting.
C3_RejectionCaught ==
  /\ \A h \in SubmitRuns :
       LET r == submits[h]
       IN  r.hook = "rejected" /\ r.pc # "rejected" =>
             /\ r.pc = "done"
             /\ r.err \in HookErrors
             /\ r.toasts = <<ErrorToast(r.err)>>
             /\ r.log = <<"acceptOfferOnOpen", "acceptOffer", "toast",
                          "acceptOfferOnClose">>
  /\ \A h \in CancelRuns :
       LET r == cancels[h]
       IN  r.hook = "rejected" /\ r.pc # "rejected" =>
             /\ r.pc = "done"
             /\ r.err \in HookErrors
             /\ r.toasts = <<ErrorToast(r.err)>>
             /\ r.log = <<"onOpen", "cancel", "toast", "onClose">>

C3_Witness ==
  \E h \in SubmitRuns : submits[h].hook = "rejected" /\ submits[h].pc = "done"

\* C4 (state part): a handler opens its modal before it calls the hook, its
\* last call is the one that closes the modal, and the modal is open only
\* while some handler is still running.
C4_ModalSafe ==
  /\ \A h \in SubmitRuns :
       LET r == submits[h]
       IN  /\ Started(r) =>
                 /\ FirstIndex(r.log, "acceptOfferOnOpen") = 1
                 /\ FirstIndex(r.log, "acceptOffer") = 2
           /\ r.pc = "done" => Last(r.log) = "acceptOfferOnClose"
  /\ \A h \in CancelRuns :
       LET r == cancels[h]
       IN  /\ Started(r) =>
                 /\ FirstIndex(r.log, "onOpen") = 1
                 /\ FirstIndex(r.log, "cancel") = 2
           /\ r.pc = "done" => Last(r.log) = "onClose"
  /\ acceptOfferIsOpen => \E h \in SubmitRuns : InFlight(submits[h])
  /\ isOpen => \E h \in CancelRuns : InFlight(cancels[h])

\* C4: the progress modal is opened before the hook is called and closed when
\* the handler finishes, whether the hook resolved or rejected: once the
\* hook's promise (for cancel: a rejected cancel, or the refetch) has settled,
\* the handler ends and the modal is closed.
C4_ModalClosedOnFinish ==
  /\ []C4_ModalSafe
  /\ \A h \in SubmitRuns :
       (submits[h].pc \in {"resolved", "rejected"})
         ~> (submits[h].pc = "done" /\ ~acceptOfferIsOpen)
  /\ \A h \in CancelRuns :
       (cancels[h].pc \in {"rejected", "refetched", "refetchRejected"})
         ~> (cancels[h].pc = "done" /\ ~isOpen)

C4_Witness ==
  /\ ~isOpen
  /\ \E h \in CancelRuns :
       cancels[h].pc = "done" /\ cancels[h].fetch = "rejected"

\* What a finished run told the user: the toasts it showed and, in the
\* checkout form, the purchase notification it handed to onPurchased (the
\* form's way of reporting success).
Notifications(r) ==
  Len(r.toasts) + Count(r.log, "onPurchased")

\* C5: every finished checkout submit and cancel shows exactly one toast: a
\* success toast if the action succeeded, an error toast if it failed.
C5_ExactlyOneToast ==
  /\ \A h \in SubmitRuns :
       LET r == submits[h]
       IN  r.pc = "done" =>
             /\ Notifications(r) = 1
             /\ r.hook = "rejected" => r.toasts = <<ErrorToast(r.err)>>
             /\ r.hook = "resolved" => Count(r.log, "onPurchased") = 1
  /\ \A h \in CancelRuns :
       LET r == cancels[h]
       IN  r.pc = "done" =>
             /\ Notifications(r) = 1
             /\ r.hook = "rejected" => r.toasts[1].status = "error"
             /\ r.hook = "resolved" => r.toasts[1].status = "success"

\* C6: a run of a handler invokes its hook exactly once: one acceptOffer per
\* run of onSubmit's callback, one cancel (and at most one refetch) per cancel
\* click, also after the hook rejected.
C6_SinglePromise ==
  /\ \A h \in SubmitRuns :
       Count(submits[h].log, "acceptOffer") =
         (IF Started(submits[h]) THEN 1 ELSE 0)
  /\ \A h \in CancelRuns :
       /\ Count(cancels[h].log, "cancel") =
            (IF Started(cancels[h]) THEN 1 ELSE 0)
       /\ Count(cancels[h].log, "refetch") <= 1

C6_Witness ==
  /\ cancels[1].pc = "done" /\ cancels[1].hook = "rejected"
  /\ cancels[2].pc = "awaiting"

\* C7: the cancel buttons are disabled while the hook is away from INITIAL,
\* and at any time at most one handleCancelOffer call is in flight.
C7_OneCancelInFlight ==
  /\ \A i \in 1..Len(view) : activeStep # "INITIAL" => view[i].disabled
  /\ Cardinality({h \in CancelRuns : InFlight(cancels[h])}) <= 1

\* C8: the quantity passed to acceptOffer is an integer q with
\* 1 <= q <= offer.availableQuantity, and offer.availableQuantity itself when
\* multiple is false.
C8_QuantityWithinSupply ==
  [][SubmitCalls("acceptOffer") =>
       /\ IsDecimalInteger(quantity)
       /\ StrToInt(quantity) >= 1
       /\ StrToInt(quantity) <= StrToInt(offer.availableQuantity)
       /\ ~multiple => quantity = offer.availableQuantity]_vars

\* C9: every rendered row offers the logged-in owner the cancel button exactly
\* when it shows the bid as active and the rebid link exactly when it shows it
\* as expired, and offers anyone else neither.
C9_ActionMatchesStatus ==
  \A i \in 1..Len(view) :
    IF ownerLoggedIn
    THEN /\ (view[i].action = "cancel") <=> (view[i].status = "active")
         /\ (view[i].action = "rebid") <=> (view[i].status = "expired")
    ELSE view[i].action = "none"

\* C10: onPurchased is called at most once per submit, only after acceptOffer
\* resolved, before the handler closes the accept-offer modal, and never when
\* acceptOffer rejected.
C10_PurchasedAfterAccept ==
  \A h \in SubmitRuns :
    LET r == submits[h]
        purchased == FirstIndex(r.log, "onPurchased")
        closed == FirstIndex(r.log, "acceptOfferOnClose")
    IN  /\ Count(r.log, "onPurchased") <= 1
        /\ purchased # 0 =>
             /\ r.hook = "resolved"
             /\ FirstIndex(r.log, "acceptOffer") # 0
             /\ FirstIndex(r.log, "acceptOffer") < purchased
             /\ closed = 0 \/ purchased < closed
        /\ r.hook = "rejected" => purchased = 0
        /\ r.pc = "done" /\ r.hook = "resolved" => purchased # 0

C10_Witness ==
  \E h \in SubmitRuns :
    submits[h].pc = "done" /\ Count(submits[h].log, "onPurchased") = 1

\* C11: while no account is connected (account is null) no step of the
\* checkout form calls acceptOffer or opens the accept-offer modal, whatever
\* the user does with the form, pressing Enter in the quantity field
\* included; the button shown opens the login modal only.
C11_NoAcceptWithoutAccount ==
  [][account = NoAccount =>
       /\ ~SubmitCalls("acceptOffer")
       /\ ~(~acceptOfferIsOpen /\ acceptOfferIsOpen')]_vars

\* C12: a run of handleCancelOffer calls refetch exactly once after cancel
\* resolved, after it showed the success toast and before it calls onClose
\* (which waits for the refetch to settle), and never calls refetch while
\* cancel is pending or after cancel rejected.
C12_RefetchOncePerSuccess ==
  \A h \in CancelRuns :
    LET r == cancels[h]
        toasted == FirstIndex(r.log, "toast")
        refetched == FirstIndex(r.log, "refetch")
        closed == FirstIndex(r.log, "onClose")
    IN  /\ r.hook # "resolved" => Count(r.log, "refetch") = 0
        /\ r.hook = "resolved" /\ r.pc # "resolved" =>
             /\ Count(r.log, "refetch") = 1
             /\ FirstIndex(r.log, "cancel") < refetched
             /\ toasted # 0 /\ toasted < refetched
             /\ r.toasts[1] =
                  SuccessToast("user.bid-placed.notifications.canceled")
             /\ closed = 0 \/ refetched < closed
             /\ closed # 0 => r.fetch # ""

C12_Witness ==
  \E h \in CancelRuns :
    /\ cancels[h].pc = "done"
    /\ cancels[h].hook = "resolved"
    /\ cancels[h].fetch = "resolved"

\* C13: on the create page config is either undefined or the value the
\* current configPromise resolved with: it is undefined once the page is
\* unmounted, and a promise that was superseded never leaves its value in it.
C13_ConfigFromCurrentPromise ==
  page = "create" =>
    /\ ~createMounted => ~config.defined
    /\ config.defined =>
         /\ promises[configPromise].state = "resolved"
         /\ config = promises[configPromise].value

\* C14: the preview card never shows private content. With isPrivate set,
\* the image is the URL of formData.preview or undefined and there is no
\* animation; the image comes from formData.content only when neither
\* isPrivate nor isAnimation is set, and the animation, always the URL of
\* formData.content, is there only when isAnimation is set and isPrivate is
\* not.
C14_PreviewNeverPrivate ==
  page = "create" =>
    LET fromPreview == useLocalFileURL(formData.preview)
        fromContent == useLocalFileURL(formData.content)
    IN  /\ Truthy(formData.isPrivate) =>
             /\ asset.image \in {NoURL, fromPreview}
             /\ asset.animationUrl \in {NoURL, fromPreview}
        /\ asset.image = fromContent /\ fromContent \notin {NoURL, fromPreview}
             => ~Truthy(formData.isPrivate) /\ ~Truthy(formData.isAnimation)
        /\ asset.animationUrl # NoURL =>
             /\ asset.animationUrl = fromContent
             /\ Truthy(formData.isAnimation) /\ ~Truthy(formData.isPrivate)

C14_Witness ==
  /\ page = "create" /\ createMounted
  /\ Truthy(formData.isPrivate)
  /\ formData.content = "secret.png"
  /\ formData.preview = "cover.png"
  /\ asset.image = useLocalFileURL("cover.png")

====
